---- MODULE Spec2Model ----
(***************************************************************************)
(* Model of tg-summary: the chat summary bot (src/bot.py), its summarizer  *)
(* backend (src/run_gemma.py) and the history export script                *)
(* (src/script.py).                                                        *)
(*                                                                         *)
(* Spec        the bot: the message store, the window query and the        *)
(*             summary request handler with its awaits as separate steps.  *)
(* SpecStore   the message store alone, with a longer clock.               *)
(* SpecImport  one run of get_chat_history against a paginated remote.     *)
(*                                                                         *)
(* Time in the bot is counted in hours, in the importer in seconds plus a  *)
(* microsecond part.  Non-ASCII literals of the source are transliterated. *)
(***************************************************************************)
EXTENDS Integers, Sequences, FiniteSets, TLC

VARIABLES
    now,            \* datetime.utcnow(), in hours
    chat_messages,  \* self.chat_messages: chat_id -> list of (datetime, username, text)
    source_ids,     \* per chat, message.message_id of the message behind each record
    requests,       \* one record per invocation of _process_summary_request
    label_dropped,  \* a period label that answered no summary prompt has arrived
    imp             \* the locals of get_chat_history and the remote it talks to

vars == <<now, chat_messages, source_ids, requests, label_dropped, imp>>

----------------------------------------------------------------------------
(* Bounds of the bot model *)

MaxStored == 3      \* records kept over all buffers, SpecStore
MaxBuffered == 2    \* records kept over all buffers, Spec
MaxRetries == 2     \* TelegramRetryAfter answers per request

Chats == {1, 2}
Users == {"alice"}
Reqs == {1, 2}
Instants == <<0, 15, 24, 25>>   \* the instants the clock passes through, SpecStore
ReqInstants == <<0, 25>>        \* the instants the clock passes through, Spec

----------------------------------------------------------------------------
(* Literals of src/bot.py *)

P24h == "24 chasa"
P3d == "3 dnya"
P1w == "1 nedelya"
PeriodLabels == {P24h, P3d, P1w}

NoText == "None"
Placeholder == "<soobshchenie bez teksta>"
PlainTexts == {"hello", NoText}

\* the platform messages that arrive: message_id and text
Incoming == {[id |-> 1, text |-> "hello"], [id |-> 2, text |-> NoText]}
RequestLabels == {P24h, P1w}

NoDataReply == "Soobshcheniy za etot period ne naydeno."
ProcessingReply == "Generiruyu vyzhimku..."
GenericError == "Proizoshla oshibka pri generatsii vyzhimki."

Hours24 == 24
Hours3d == 72
Hours1w == 168
HoursDefault == 24

(* Literals of src/run_gemma.py *)

SummaryText == "summary"
ErrProbabilities == "Error: Invalid probabilities in model output"
ErrFailed == "Error: Failed to generate summary"
ErrUnexpected == "Error: Unexpected error occurred"
BackendErrorTexts == {ErrProbabilities, ErrFailed, ErrUnexpected}

BackendOutcomes == {"ok", "probability_error", "runtime_error", "unexpected_error"}
BackendRuns == {"ok", "runtime_error"}
DeliveryOutcomes == {"ok", "retry_after", "api_error"}

----------------------------------------------------------------------------
(* The message store *)

\* _get_cutoff_time: now minus the period's timedelta, one day by default
PeriodDelta(period) ==
    CASE period = P24h -> Hours24
      [] period = P3d -> Hours3d
      [] period = P1w -> Hours1w
      [] OTHER -> HoursDefault

GetCutoffTime(period) == now - PeriodDelta(period)

\* self.chat_messages.get(chat_id, [])
BufferOf(chat_id) ==
    IF chat_id \in DOMAIN chat_messages THEN chat_messages[chat_id] ELSE <<>>

InWindowStrict(m, cutoff) == m[1] > cutoff

\* m[0] >= cutoff
InWindow(m, cutoff) == m[1] >= cutoff

\* [m for m in messages if m[0] >= cutoff]
RECURSIVE FilterWindow(_, _)
FilterWindow(messages, cutoff) ==
    IF messages = <<>> THEN <<>>
    ELSE LET rest == FilterWindow(Tail(messages), cutoff)
         IN IF InWindow(Head(messages), cutoff)
            THEN <<Head(messages)>> \o rest
            ELSE rest

GetMessagesForPeriod(chat_id, cutoff) == FilterWindow(BufferOf(chat_id), cutoff)

\* _format_chat_history: one line "[ts] user: text" per message, in order
RECURSIVE FormatChatHistory(_)
FormatChatHistory(messages) ==
    IF messages = <<>> THEN <<>>
    ELSE <<[ts |-> Head(messages)[1], user |-> Head(messages)[2],
            text |-> Head(messages)[3]]>> \o FormatChatHistory(Tail(messages))

AppendToFront(dict, chat_id, record) ==
    IF chat_id \in DOMAIN dict
    THEN [dict EXCEPT ![chat_id] = <<record>> \o @]
    ELSE dict @@ (chat_id :> <<record>>)

AppendToReplace(dict, chat_id, record) ==
    IF chat_id \in DOMAIN dict
    THEN [dict EXCEPT ![chat_id] = <<record>>]
    ELSE dict @@ (chat_id :> <<record>>)

\* self.chat_messages.setdefault(chat_id, []).append(record)
AppendTo(dict, chat_id, record) ==
    IF chat_id \in DOMAIN dict
    THEN [dict EXCEPT ![chat_id] = Append(@, record)]
    ELSE dict @@ (chat_id :> <<record>>)

\* message.text or "<placeholder>"
TextOrPlaceholder(text) == IF text = NoText THEN Placeholder ELSE text

\* the message_id of a message handle_message passes on to _store_message,
\* in arrival order
LogArrival(log, chat_id, id) ==
    IF chat_id \in DOMAIN log
    THEN [log EXCEPT ![chat_id] = Append(@, id)]
    ELSE log @@ (chat_id :> <<id>>)

\* _store_message
StoreMessage(chat_id, id, user, text) ==
    chat_messages' = AppendTo(chat_messages, chat_id,
                              <<now, user, TextOrPlaceholder(text)>>)

RECURSIVE SumLen(_, _)
SumLen(dict, keys) ==
    IF keys = {} THEN 0
    ELSE LET k == CHOOSE x \in keys : TRUE
         IN Len(dict[k]) + SumLen(dict, keys \ {k})

StoredCount == SumLen(chat_messages, DOMAIN chat_messages)

----------------------------------------------------------------------------
(* The summary request handler *)

IdleRequest ==
    [pc |-> "idle", chat |-> 0, period |-> "", messages |-> <<>>,
     chat_history |-> <<>>, summary |-> "", gen_calls |-> 0, retries |-> 0,
     outcome |-> "none", sent |-> "", escaped |-> FALSE, hung |-> FALSE,
     nodata_seen |-> FALSE, backend_failed |-> FALSE, cutoff |-> 0,
     buf_len |-> 0]

\* lines 116-127 up to the first await, with fresh locals: the cutoff, the
\* window, the empty check and the formatted history
EnterRequest(req, chat_id, period) ==
    LET cutoff == GetCutoffTime(period)
        messages == GetMessagesForPeriod(chat_id, cutoff)
        fresh == [req EXCEPT !.chat = chat_id, !.period = period,
                             !.cutoff = cutoff, !.buf_len = Len(BufferOf(chat_id)),
                             !.messages = messages, !.chat_history = <<>>,
                             !.summary = "", !.backend_failed = FALSE]
    IN IF messages = <<>>
       THEN [fresh EXCEPT !.pc = "reply_nodata", !.nodata_seen = TRUE]
       ELSE [fresh EXCEPT !.pc = "reply_processing",
                          !.chat_history = FormatChatHistory(messages)]

\* generate_summary: every exception is caught and turned into a returned text
GenerateSummary(backend) ==
    CASE backend = "ok" -> SummaryText
      [] backend = "probability_error" -> ErrProbabilities
      [] backend = "runtime_error" -> ErrFailed
      [] OTHER -> ErrUnexpected

EventLoopBlocked == \A r \in Reqs : requests[r].pc # "generating"

\* asyncio.to_thread: generate_summary runs in a worker thread, the event
\* loop stays free for the other handlers while a request is generating
EventLoopFree == TRUE

FreeRequest(r) ==
    /\ requests[r].pc = "idle"
    /\ \A q \in Reqs : q < r => requests[q].pc # "idle"

\* handle_message, a plain message: stored
HandleStore(limit, chat_id, id, user, text) ==
    /\ text \notin PeriodLabels
    /\ EventLoopFree
    /\ StoredCount < limit
    /\ StoreMessage(chat_id, id, user, text)
    /\ source_ids' = LogArrival(source_ids, chat_id, id)
    /\ UNCHANGED <<now, requests, label_dropped, imp>>

HandleLabelOnlyStored(chat_id, text) ==
    /\ text \in PeriodLabels
    /\ EventLoopFree
    /\ label_dropped' = TRUE
    /\ StoreMessage(chat_id, 0, "alice", text)
    /\ UNCHANGED <<now, source_ids, requests, imp>>

\* handle_message, a period label that answers no summary prompt: dropped
HandleLabelOnly(chat_id, text) ==
    /\ text \in PeriodLabels
    /\ EventLoopFree
    /\ label_dropped' = TRUE
    /\ UNCHANGED <<now, chat_messages, source_ids, requests, imp>>

HandleSummaryRequestAndStore(r, chat_id, text) ==
    /\ text \in PeriodLabels
    /\ EventLoopFree
    /\ FreeRequest(r)
    /\ requests' = [requests EXCEPT ![r] = EnterRequest(@, chat_id, text)]
    /\ StoreMessage(chat_id, 0, "alice", text)
    /\ UNCHANGED <<now, source_ids, label_dropped, imp>>

\* handle_message, a period label answering the summary prompt
HandleSummaryRequest(r, chat_id, text) ==
    /\ text \in PeriodLabels
    /\ EventLoopFree
    /\ FreeRequest(r)
    /\ requests' = [requests EXCEPT ![r] = EnterRequest(@, chat_id, text)]
    /\ UNCHANGED <<now, chat_messages, source_ids, label_dropped, imp>>

\* except TelegramRetryAfter: sleep, then the handler is called again
RateLimited(req) == [req EXCEPT !.pc = "cooldown", !.retries = @ + 1]

\* except TelegramAPIError: logged and raised again, out of the handler
Escapes(req) == [req EXCEPT !.pc = "done", !.escaped = TRUE]

\* line 120: await message.reply(no messages found)
ReplyNoData(r, result) ==
    /\ requests[r].pc = "reply_nodata"
    /\ EventLoopFree
    /\ result = "retry_after" => requests[r].retries < MaxRetries
    /\ requests' = [requests EXCEPT ![r] =
          CASE result = "ok" -> [@ EXCEPT !.pc = "done", !.outcome = "NoData",
                                          !.sent = NoDataReply]
            [] result = "retry_after" -> RateLimited(@)
            [] OTHER -> Escapes(@)]
    /\ UNCHANGED <<now, chat_messages, source_ids, label_dropped, imp>>

\* line 127: await message.reply(generating...), then the call is offloaded
ReplyProcessing(r, result) ==
    /\ requests[r].pc = "reply_processing"
    /\ EventLoopFree
    /\ result = "retry_after" => requests[r].retries < MaxRetries
    /\ requests' = [requests EXCEPT ![r] =
          CASE result = "ok" -> [@ EXCEPT !.pc = "generating", !.gen_calls = @ + 1]
            [] result = "retry_after" -> RateLimited(@)
            [] OTHER -> Escapes(@)]
    /\ UNCHANGED <<now, chat_messages, source_ids, label_dropped, imp>>

\* lines 130-133: the offloaded generate_summary returns
GenerateReturns(r, backend) ==
    /\ requests[r].pc = "generating"
    /\ ~requests[r].hung
    /\ requests' = [requests EXCEPT ![r] =
          [@ EXCEPT !.pc = "edit_summary", !.summary = GenerateSummary(backend),
                    !.backend_failed = (backend # "ok")]]
    /\ UNCHANGED <<now, chat_messages, source_ids, label_dropped, imp>>

\* the offloaded call does not return
GenerateHangs(r) ==
    /\ requests[r].pc = "generating"
    /\ ~requests[r].hung
    /\ requests' = [requests EXCEPT ![r].hung = TRUE]
    /\ UNCHANGED <<now, chat_messages, source_ids, label_dropped, imp>>

\* lines 135-140: await processing_msg.edit_text(summary); any exception
\* goes to the inner handler
EditSummary(r, result) ==
    /\ requests[r].pc = "edit_summary"
    /\ EventLoopFree
    /\ requests' = [requests EXCEPT ![r] =
          IF result = "ok"
          THEN [@ EXCEPT !.pc = "done", !.outcome = "Delivered",
                         !.sent = requests[r].summary]
          ELSE [@ EXCEPT !.pc = "edit_error"]]
    /\ UNCHANGED <<now, chat_messages, source_ids, label_dropped, imp>>

\* lines 141-144: await processing_msg.edit_text(generic error)
EditError(r, result) ==
    /\ requests[r].pc = "edit_error"
    /\ EventLoopFree
    /\ result = "retry_after" => requests[r].retries < MaxRetries
    /\ requests' = [requests EXCEPT ![r] =
          CASE result = "ok" -> [@ EXCEPT !.pc = "done", !.outcome = "Failed",
                                          !.sent = GenericError]
            [] result = "retry_after" -> RateLimited(@)
            [] OTHER -> Escapes(@)]
    /\ UNCHANGED <<now, chat_messages, source_ids, label_dropped, imp>>

\* lines 148-149: the sleep is over, _process_summary_request(message) again
RetryRequest(r) ==
    /\ requests[r].pc = "cooldown"
    /\ EventLoopFree
    /\ requests' = [requests EXCEPT ![r] = EnterRequest(@, @.chat, @.period)]
    /\ UNCHANGED <<now, chat_messages, source_ids, label_dropped, imp>>

\* the clock
Tick(instants, k) ==
    /\ now = instants[k]
    /\ now' = instants[k + 1]
    /\ UNCHANGED <<chat_messages, source_ids, requests, label_dropped, imp>>

----------------------------------------------------------------------------
NoImport == [pc |-> "off"]

Init ==
    /\ now = 0
    /\ chat_messages = <<>>
    /\ source_ids = <<>>
    /\ requests = [r \in Reqs |-> IdleRequest]
    /\ label_dropped = FALSE
    /\ imp = NoImport

\* the bot with one summary request in flight
Next ==
    \/ \E c \in Chats, m \in Incoming, u \in Users :
          HandleStore(MaxBuffered, c, m.id, u, m.text)
    \/ \E c \in Chats, t \in PeriodLabels : HandleLabelOnly(c, t)
    \/ \E r \in {1}, c \in Chats, t \in RequestLabels : HandleSummaryRequest(r, c, t)
    \/ \E r \in Reqs, d \in DeliveryOutcomes : ReplyNoData(r, d)
    \/ \E r \in Reqs, d \in DeliveryOutcomes : ReplyProcessing(r, d)
    \/ \E r \in Reqs, b \in BackendRuns : GenerateReturns(r, b)
    \/ \E r \in Reqs : GenerateHangs(r)
    \/ \E r \in Reqs, d \in DeliveryOutcomes : EditSummary(r, d)
    \/ \E r \in Reqs, d \in DeliveryOutcomes : EditError(r, d)
    \/ \E r \in Reqs : RetryRequest(r)
    \/ \E k \in 1..(Len(ReqInstants) - 1) : Tick(ReqInstants, k)

Spec == Init /\ [][Next]_vars

\* two summary requests side by side, deliveries that succeed
MaxConcStored == 2  \* messages stored while the two requests run

NextConc ==
    \/ \E c \in Chats, u \in Users :
          HandleStore(MaxConcStored, c, 1, u, "hello")
    \/ \E r \in Reqs, c \in Chats : HandleSummaryRequest(r, c, P24h)
    \/ \E r \in Reqs : ReplyNoData(r, "ok")
    \/ \E r \in Reqs : ReplyProcessing(r, "ok")
    \/ \E r \in Reqs : GenerateReturns(r, "ok")
    \/ \E r \in Reqs : EditSummary(r, "ok")
    \/ \E k \in 1..(Len(ReqInstants) - 1) : Tick(ReqInstants, k)

SpecConc == Init /\ [][NextConc]_vars

\* the message store alone
NextStore ==
    \/ \E c \in Chats, m \in Incoming, u \in Users :
          HandleStore(MaxStored, c, m.id, u, m.text)
    \/ \E c \in Chats, t \in PeriodLabels : HandleLabelOnly(c, t)
    \/ \E k \in 1..(Len(Instants) - 1) : Tick(Instants, k)

SpecStore == Init /\ [][NextStore]_vars

----------------------------------------------------------------------------
(* The history export, src/script.py *)

MaxPages == 3       \* the remote holds fewer than MaxPages full pages

PageLimit == 100        \* SearchRequest(limit=100)
EndThreshold == 100     \* len(messages.messages) < 100
DaySeconds == 86400     \* timedelta(hours=24)

Remainders == {0, 1, 40, 99}
Totals == {k * PageLimit + r : k \in 0..(MaxPages - 1), r \in Remainders}
EndTimes == {[sec |-> 200000, usec |-> 0], [sec |-> 200000, usec |-> 7]}
DatePatterns == {"inside", "edges"}
ResolvableSets == {{1, 2, 3, 4}, {1, 2, 4}, {1, 2, 3}}

\* start_time = end_time - timedelta(hours=24)
StartOf(end_time) == [sec |-> end_time.sec - DaySeconds, usec |-> end_time.usec]

\* datetime.isoformat(): the seconds as a fixed width prefix, then ".ffffff"
\* only when the microseconds are not 0, then "+00:00" only when the value is
\* timezone aware.  46 and 43 are the codes of "." and "+".
IsoFormat(sec, usec, aware) ==
    <<sec>> \o (IF usec # 0 THEN <<46, usec>> ELSE <<>>)
            \o (IF aware THEN <<43>> ELSE <<>>)

\* <= on str: lexicographic, a proper prefix is smaller
RECURSIVE StrLeq(_, _)
StrLeq(a, b) ==
    IF a = <<>> THEN TRUE
    ELSE IF b = <<>> THEN FALSE
    ELSE IF Head(a) # Head(b) THEN Head(a) < Head(b)
    ELSE StrLeq(Tail(a), Tail(b))

\* the message with this id on the remote: Telegram dates are whole seconds,
\* telethon hands them out as timezone aware datetimes
RemoteDate(st, id) ==
    LET s == StartOf(st.end_time).sec
        e == st.end_time.sec
    IN IF st.date_pattern = "inside" THEN s + id
       ELSE CASE id % 6 = 0 -> s - 1
              [] id % 6 = 1 -> s
              [] id % 6 = 2 -> s + 1
              [] id % 6 = 3 -> e - 1
              [] id % 6 = 4 -> e
              [] OTHER -> e + 1

RemoteSender(id) ==
    CASE id % 5 = 0 -> 0
      [] id % 5 = 1 -> 1
      [] id % 5 = 2 -> 1
      [] id % 5 = 3 -> 2
      [] OTHER -> IF id <= PageLimit THEN 4 ELSE 3

RemoteMessage(st, id) ==
    [id |-> id, date |-> RemoteDate(st, id), sender_id |-> RemoteSender(id),
     message |-> id]

\* the answer to SearchRequest(limit, offset_id): the newest messages below
\* offset_id, newest first (offset_id = 0: from the newest one)
RemotePage(st, limit) ==
    LET top == IF st.offset_id = 0 THEN st.total ELSE st.offset_id - 1
        n == IF top < limit THEN top ELSE limit
    IN [k \in 1..n |-> RemoteMessage(st, top - k + 1)]

\* the entity get_entity returns for a sender id
Entity(id) ==
    [id |-> id, username |-> <<"username", id>>, first_name |-> <<"first", id>>,
     last_name |-> <<"last", id>>]

InBatchLowerOnly(st, msg) ==
    LET start_time == StartOf(st.end_time)
    IN StrLeq(IsoFormat(start_time.sec, start_time.usec, FALSE),
              IsoFormat(msg.date, 0, TRUE))

\* start_time.isoformat() <= msg.date.isoformat() <= end_time.isoformat()
InBatch(st, msg) ==
    LET start_time == StartOf(st.end_time)
    IN /\ StrLeq(IsoFormat(start_time.sec, start_time.usec, FALSE),
                 IsoFormat(msg.date, 0, TRUE))
       /\ StrLeq(IsoFormat(msg.date, 0, TRUE),
                 IsoFormat(st.end_time.sec, st.end_time.usec, FALSE))

BatchMessages(st, page) == SelectSeq(page, LAMBDA msg : InBatch(st, msg))

SenderIdsOfBatch(batch) == [i \in 1..Len(batch) |-> batch[i].sender_id]

SenderIdsIgnoringCache(batch, cache) ==
    LET ids == SenderIdsOfBatch(batch)
        first == SelectSeq([i \in 1..Len(ids) |-> i],
                    LAMBDA i : /\ ids[i] # 0
                               /\ \A j \in 1..(i - 1) : ids[j] # ids[i])
    IN [k \in 1..Len(first) |-> ids[first[k]]]

\* {msg.sender_id for msg in batch_messages
\*      if msg.sender_id and msg.sender_id not in sender_cache}
\* as the sequence of its elements, each once, in order of first occurrence
SenderIds(batch, cache) ==
    LET ids == SenderIdsOfBatch(batch)
        first == SelectSeq([i \in 1..Len(ids) |-> i],
                    LAMBDA i : /\ ids[i] # 0
                               /\ ids[i] \notin DOMAIN cache
                               /\ \A j \in 1..(i - 1) : ids[j] # ids[i])
    IN [k \in 1..Len(first) |-> ids[first[k]]]

\* sender_cache.update({s.id: s for s in senders})
CacheUpdate(cache, ids) ==
    [id \in DOMAIN cache \cup {ids[i] : i \in 1..Len(ids)} |->
        IF id \in {ids[i] : i \in 1..Len(ids)} THEN Entity(id) ELSE cache[id]]

\* Python's None as the value of a sender attribute
NoneAttr == <<"None">>

\* "username": None, "name": None, "surname": None
NullSender == [username |-> NoneAttr, name |-> NoneAttr, surname |-> NoneAttr]

RecordOfLastCached(cache, msg) ==
    LET known == msg.sender_id # 0 /\ msg.sender_id \in DOMAIN cache
        last == CHOOSE id \in DOMAIN cache : \A other \in DOMAIN cache : other <= id
    IN [sender |-> IF known \/ (msg.sender_id # 0 /\ DOMAIN cache # {})
                   THEN LET key == IF known THEN msg.sender_id ELSE last
                        IN [username |-> cache[key].username,
                            name |-> cache[key].first_name,
                            surname |-> cache[key].last_name]
                   ELSE NullSender,
        date |-> IsoFormat(msg.date, 0, TRUE),
        text |-> msg.message]

\* lines 74-83: the record appended for one message
RecordOf(cache, msg) ==
    LET known == msg.sender_id # 0 /\ msg.sender_id \in DOMAIN cache
    IN [sender |-> IF known
                   THEN [username |-> cache[msg.sender_id].username,
                         name |-> cache[msg.sender_id].first_name,
                         surname |-> cache[msg.sender_id].last_name]
                   ELSE NullSender,
        date |-> IsoFormat(msg.date, 0, TRUE),
        text |-> msg.message]

NextOffsetStuck(page) == 0

\* offset_id = messages.messages[-1].id
NextOffset(page) == page[Len(page)].id

\* lines 72-89: the records of the batch are appended, then the loop ends on
\* a short page or goes to sleep with the next offset
EmitBatch(st, cache) ==
    LET out == st.messages_data \o
                 [i \in 1..Len(st.batch) |-> RecordOf(cache, st.batch[i])]
    IN IF Len(st.page) < EndThreshold
       THEN [st EXCEPT !.messages_data = out, !.sender_cache = cache, !.pc = "done"]
       ELSE [st EXCEPT !.messages_data = out, !.sender_cache = cache,
                       !.offset_id = NextOffset(st.page), !.pc = "sleep"]

OnFetchErrorDropAll(st) ==
    [st EXCEPT !.pc = "done", !.fetches = @ + 1, !.fetch_failed = TRUE,
               !.messages_data = <<>>]

\* lines 52-54: the error is printed and the loop is left
OnFetchError(st) ==
    [st EXCEPT !.pc = "done", !.fetches = @ + 1, !.fetch_failed = TRUE]

\* lines 39-70 up to the next await: the page is fetched, an empty page ends
\* the loop, else the batch is filtered and the senders not in the cache are
\* asked for, if there are any
OnFetchOk(st) ==
    LET page == RemotePage(st, PageLimit)
        got == [st EXCEPT !.fetches = @ + 1, !.page = page,
                          !.page_sizes = Append(@, Len(page))]
    IN IF page = <<>>
       THEN [got EXCEPT !.pc = "done", !.batch = <<>>]
       ELSE LET batch == BatchMessages(st, page)
                sender_ids == SenderIds(batch, st.sender_cache)
                ready == [got EXCEPT !.batch = batch, !.sender_ids = sender_ids]
            IN IF sender_ids # <<>>
               THEN [ready EXCEPT !.pc = "resolve",
                        !.resolve_log = Append(@,
                            [page |-> Len(got.page_sizes), ids |-> sender_ids,
                             cached |-> DOMAIN st.sender_cache, ok |-> FALSE])]
               ELSE EmitBatch(ready, st.sender_cache)

FetchPage(result) ==
    /\ imp.pc = "fetch"
    /\ imp' = IF result = "ok" THEN OnFetchOk(imp) ELSE OnFetchError(imp)
    /\ UNCHANGED <<now, chat_messages, source_ids, requests, label_dropped>>

\* lines 66-68: get_entity answers with all the entities asked for
ResolveOk ==
    /\ imp.pc = "resolve"
    /\ {imp.sender_ids[i] : i \in 1..Len(imp.sender_ids)} \subseteq imp.resolvable
    /\ imp' = EmitBatch(
                 [imp EXCEPT !.resolve_log[Len(imp.resolve_log)].ok = TRUE],
                 CacheUpdate(imp.sender_cache, imp.sender_ids))
    /\ UNCHANGED <<now, chat_messages, source_ids, requests, label_dropped>>

\* lines 69-70: get_entity raises, a warning is printed
ResolveFails ==
    /\ imp.pc = "resolve"
    /\ imp' = EmitBatch(imp, imp.sender_cache)
    /\ UNCHANGED <<now, chat_messages, source_ids, requests, label_dropped>>

\* line 89: await asyncio.sleep(0.5)
Pace ==
    /\ imp.pc = "sleep"
    /\ imp' = [imp EXCEPT !.pc = "fetch"]
    /\ UNCHANGED <<now, chat_messages, source_ids, requests, label_dropped>>

\* lines 25-29 and the remote the run meets
ImportStart(end_time, total, date_pattern, resolvable) ==
    [pc |-> "fetch", end_time |-> end_time, messages_data |-> <<>>,
     offset_id |-> 0, sender_cache |-> <<>>, page |-> <<>>, batch |-> <<>>,
     sender_ids |-> <<>>, total |-> total, date_pattern |-> date_pattern,
     resolvable |-> resolvable, fetches |-> 0, page_sizes |-> <<>>,
     fetch_failed |-> FALSE, resolve_log |-> <<>>]

InitImport ==
    /\ now = 0
    /\ chat_messages = <<>>
    /\ source_ids = <<>>
    /\ requests = [r \in Reqs |-> IdleRequest]
    /\ label_dropped = FALSE
    /\ imp \in {ImportStart(e, t, d, rs) :
                   e \in EndTimes, t \in Totals, d \in DatePatterns,
                   rs \in ResolvableSets}

NextImport ==
    \/ \E result \in {"ok", "error"} : FetchPage(result)
    \/ ResolveOk
    \/ ResolveFails
    \/ Pace

SpecImport == InitImport /\ [][NextImport]_vars

----------------------------------------------------------------------------
(* Claims about the message store, checked under SpecStore *)

Range(seq) == {seq[i] : i \in 1..Len(seq)}
Timestamps(buf) == [i \in 1..Len(buf) |-> buf[i][1]]
CutoffRange == (Instants[1] - Hours1w - 1)..(Instants[Len(Instants)] + 1)

\* C1: for every conversation and every cutoff the window query returns a
\* suffix of the buffer: every record left out is older than the cutoff and
\* precedes the window, every record returned has timestamp >= cutoff, in
\* buffer order; with records at T-25h, T-10h, T-1h the 24 hour window at T
\* is the last two.
C1_WindowIsSuffix ==
    \A c \in Chats :
       LET buf == BufferOf(c)
       IN /\ \A cutoff \in CutoffRange :
                LET win == GetMessagesForPeriod(c, cutoff)
                IN /\ \E k \in 0..Len(buf) :
                         /\ win = SubSeq(buf, k + 1, Len(buf))
                         /\ \A i \in 1..k : buf[i][1] < cutoff
                   /\ \A i \in 1..Len(win) : win[i][1] >= cutoff
                   /\ \A i, j \in 1..Len(win) : i < j => win[i][1] <= win[j][1]
          /\ (Timestamps(buf) = <<now - 25, now - 10, now - 1>>
                => GetMessagesForPeriod(c, GetCutoffTime(P24h)) = SubSeq(buf, 2, 3))

\* a buffer with records at T-25h, T-10h, T-1h, and one with a record exactly
\* at the 24 hour cutoff
C1_Witness ==
    /\ \E c \in Chats : Timestamps(BufferOf(c)) = <<now - 25, now - 10, now - 1>>
    /\ \E c \in Chats : Len(GetMessagesForPeriod(c, GetCutoffTime(P24h))) = 2

\* C6: storing a message whose sourceId is already in the conversation's
\* buffer leaves that buffer unchanged.
C6_StoreIdempotent ==
    [][\A c \in Chats, m \in Incoming, u \in Users :
          (/\ HandleStore(MaxStored, c, m.id, u, m.text)
           /\ c \in DOMAIN source_ids
           /\ m.id \in Range(source_ids[c]))
          => chat_messages' = chat_messages]_vars

----------------------------------------------------------------------------
(* Claims about the summary request, checked under Spec *)

\* the steps the handler of request r takes by itself
RequestStep(r) ==
    \/ \E d \in DeliveryOutcomes : ReplyNoData(r, d)
    \/ \E d \in DeliveryOutcomes : ReplyProcessing(r, d)
    \/ \E b \in BackendRuns : GenerateReturns(r, b)
    \/ \E d \in DeliveryOutcomes : EditSummary(r, d)
    \/ \E d \in DeliveryOutcomes : EditError(r, d)
    \/ RetryRequest(r)

\* C2: a request that found its window empty makes no backend call and ends
\* in no outcome but NoData, also across rate-limited NoData replies.
C2_EmptyWindowNoBackend ==
    \A r \in Reqs :
       requests[r].nodata_seen
         => /\ requests[r].gen_calls = 0
            /\ requests[r].outcome \in {"none", "NoData"}

\* C3: one request invokes the backend generation at most once, whatever
\* number of rate-limit answers its replies and edits get.
C3_GenerateAtMostOnce == \A r \in Reqs : requests[r].gen_calls <= 1

\* C4: when the backend generation fails the request does not end in
\* Delivered and no text made from the backend error is sent as the summary.
C4_BackendFailureEndsFailed ==
    \A r \in Reqs :
       requests[r].backend_failed
         => /\ requests[r].outcome # "Delivered"
            /\ requests[r].sent \notin BackendErrorTexts

\* C5: a request in Generating can always leave it: when the offloaded call
\* does not return, a timeout resolves the request.
C5_GeneratingLeaves ==
    \A r \in Reqs : requests[r].pc = "generating" => ENABLED RequestStep(r)

----------------------------------------------------------------------------
(* Claims about the history export, checked under SpecImport *)

CeilDiv(a, b) == (a + b - 1) \div b
TimeLess(a, b) == a.sec < b.sec \/ (a.sec = b.sec /\ a.usec < b.usec)
TimeLeq(a, b) == a = b \/ TimeLess(a, b)

\* the instant an emitted "date" string stands for
ParseIso(date) ==
    [sec |-> date[1],
     usec |-> IF Len(date) >= 3 /\ date[2] = 46 THEN date[3] ELSE 0]

\* the ids of the remote messages inside [start, end) among the n newest
InWindowIds(n) ==
    LET m == IF n < imp.total THEN n ELSE imp.total
    IN SelectSeq([k \in 1..m |-> imp.total - k + 1],
                 LAMBDA id :
                    LET t == [sec |-> RemoteDate(imp, id), usec |-> 0]
                    IN TimeLeq(StartOf(imp.end_time), t) /\ TimeLess(t, imp.end_time))

\* C7: the run makes at most ceil(total / pageSize) + 1 page fetches and
\* fetches nothing after the first page that is empty or shorter than
\* pageSize: once such a page is in, the run only resolves, emits and returns.
C7_PaginationBounded ==
    /\ imp.fetches <= CeilDiv(imp.total, PageLimit) + 1
    /\ \A i \in 1..Len(imp.page_sizes) :
          imp.page_sizes[i] < PageLimit
            => i = Len(imp.page_sizes) /\ imp.pc \in {"resolve", "done"}
    /\ imp.pc \in {"fetch", "sleep"}
          => Len(imp.page_sizes) * PageLimit <= imp.total

\* the run over 240 messages has returned after three fetches, the last
\* page holding 40
C7_Witness ==
    /\ imp.pc = "done"
    /\ imp.page_sizes = <<PageLimit, PageLimit, 40>>
    /\ imp.fetches = 3

C9_FetchErrorReturnsCollected ==
    imp.fetch_failed
      => /\ imp.pc = "done"
         /\ [i \in 1..Len(imp.messages_data) |-> imp.messages_data[i].text]
              = InWindowIds(Len(imp.page_sizes) * PageLimit)

\* the fetch of page 3 failed and the records of pages 1 and 2 were returned
C9_Witness ==
    /\ imp.fetch_failed
    /\ Len(imp.page_sizes) = 2
    /\ imp.messages_data # <<>>

AttrsOf(id) ==
    [username |-> Entity(id).username, name |-> Entity(id).first_name,
     surname |-> Entity(id).last_name]

\* the number of the page, counted from 1, that returned the message id
PageOfId(id) == ((imp.total - id) \div PageLimit) + 1

\* C11: every emitted record carries the attributes of the entity whose id
\* is the sender id of its message, or null attributes, never those of
\* another sender; while the resolution call of a page is pending no record
\* of that page is in the output, and after a call that succeeded every
\* record of its page whose sender was asked for carries that sender.
C11_SenderOfRecord ==
    /\ \A i \in 1..Len(imp.messages_data) :
          LET rec == imp.messages_data[i]
              sender_id == RemoteSender(rec.text)
          IN \/ rec.sender = NullSender
             \/ sender_id # 0 /\ rec.sender = AttrsOf(sender_id)
    /\ imp.pc = "resolve"
          => \A i \in 1..Len(imp.messages_data) :
                PageOfId(imp.messages_data[i].text) < Len(imp.page_sizes)
    /\ \A k \in 1..Len(imp.resolve_log) :
          imp.resolve_log[k].ok
            => \A i \in 1..Len(imp.messages_data) :
                  LET rec == imp.messages_data[i]
                  IN (/\ PageOfId(rec.text) = imp.resolve_log[k].page
                      /\ RemoteSender(rec.text) \in Range(imp.resolve_log[k].ids))
                        => rec.sender = AttrsOf(RemoteSender(rec.text))

\* the run has returned records of three resolved senders, records of a
\* sender that was never resolved and records of messages without sender
C11_Witness ==
    /\ imp.pc = "done"
    /\ \A id \in {1, 2, 4} :
          \E i \in 1..Len(imp.messages_data) :
             imp.messages_data[i].sender = AttrsOf(id)
    /\ \E i \in 1..Len(imp.messages_data) :
          /\ RemoteSender(imp.messages_data[i].text) = 3
          /\ imp.messages_data[i].sender = NullSender
    /\ \E i \in 1..Len(imp.messages_data) :
          RemoteSender(imp.messages_data[i].text) = 0

\* C12: a page fetch that fails is made once more with the same cursor
\* before the run is aborted: a run that ended on a fetch error has seen two
\* failed fetches, the first one and its single retry.
C12_FetchRetriedOnce ==
    imp.fetch_failed => imp.fetches - Len(imp.page_sizes) = 2

\* C13: after a resolution failure only the messages whose sender could not
\* be resolved carry null sender attributes: a record of a resolvable sender
\* is null only when the call of its page failed although every identifier
\* it asked for was resolvable.
C13_NullOnlyForUnresolvable ==
    \A i \in 1..Len(imp.messages_data) :
       LET rec == imp.messages_data[i]
           sender_id == RemoteSender(rec.text)
       IN (/\ sender_id \in imp.resolvable
           /\ rec.sender = NullSender)
            => \E k \in 1..Len(imp.resolve_log) :
                  /\ imp.resolve_log[k].page = PageOfId(rec.text)
                  /\ ~imp.resolve_log[k].ok
                  /\ sender_id \in Range(imp.resolve_log[k].ids)
                  /\ Range(imp.resolve_log[k].ids) \subseteq imp.resolvable

\* C14: the returned sequence is in chronological order: no record precedes
\* a record with an earlier timestamp.
C14_OutputChronological ==
    \A i, j \in 1..Len(imp.messages_data) :
       i < j => TimeLeq(ParseIso(imp.messages_data[i].date),
                        ParseIso(imp.messages_data[j].date))

----------------------------------------------------------------------------
(* Claims about the store and the handlers around it *)

\* the text _store_message keeps for the incoming message with this id
StoredTextOf(id) ==
    LET m == CHOOSE m \in Incoming : m.id = id
    IN IF m.text = NoText THEN Placeholder ELSE m.text

\* C15: in every reachable state every conversation buffer is ordered by
\* non-decreasing timestamp, no timestamp lies after the present instant,
\* and the records stand in the order in which their messages arrived.
C15_BufferInArrivalOrder ==
    /\ DOMAIN chat_messages = DOMAIN source_ids
    /\ \A c \in DOMAIN chat_messages :
          LET buf == chat_messages[c]
              log == source_ids[c]
          IN /\ \A i, j \in 1..Len(buf) : i < j => buf[i][1] <= buf[j][1]
             /\ \A i \in 1..Len(buf) : buf[i][1] <= now
             /\ Len(buf) = Len(log)
             /\ \A i \in 1..Len(buf) : buf[i][3] = StoredTextOf(log[i])

\* a buffer of three records, stored at two instants, the textless message
\* arriving between two others
C15_Witness ==
    \E c \in DOMAIN chat_messages :
       /\ Len(chat_messages[c]) = 3
       /\ source_ids[c] = <<1, 2, 1>>
       /\ chat_messages[c][1][1] < chat_messages[c][2][1]
       /\ chat_messages[c][2][1] = chat_messages[c][3][1]

\* the buffer of a conversation after the step
BufferAfter(chat_id) ==
    IF chat_id \in DOMAIN chat_messages' THEN chat_messages'[chat_id] ELSE <<>>

\* the step appends one record at the end of the buffer of chat_id and
\* leaves every other conversation as it is
AppendsOneTo(chat_id) ==
    /\ DOMAIN chat_messages' = DOMAIN chat_messages \cup {chat_id}
    /\ Len(BufferAfter(chat_id)) = Len(BufferOf(chat_id)) + 1
    /\ SubSeq(BufferAfter(chat_id), 1, Len(BufferOf(chat_id))) = BufferOf(chat_id)
    /\ \A other \in Chats \ {chat_id} :
          /\ other \in DOMAIN chat_messages' <=> other \in DOMAIN chat_messages
          /\ BufferAfter(other) = BufferOf(other)
          /\ \A p \in PeriodLabels :
                FilterWindow(BufferAfter(other), GetCutoffTime(p))
                   = GetMessagesForPeriod(other, GetCutoffTime(p))

\* C19: every step leaves all buffers unchanged or appends exactly one
\* record at the end of exactly one conversation's buffer, creating it on
\* the first message: no record is removed, reordered or modified, and the
\* buffer and the window of every other conversation stay as they were.
C19_AppendOnlyIsolated ==
    [][\/ chat_messages' = chat_messages
       \/ \E c \in Chats : AppendsOneTo(c)]_vars

\* both conversations have a buffer, one of them with two records
C19_Witness ==
    /\ DOMAIN chat_messages = Chats
    /\ \E c \in Chats : Len(chat_messages[c]) = 2

\* C20: a message whose text is a period label is never stored, whether it
\* starts a summary request or not; every other message handed to the
\* handler is stored exactly once, in its conversation, with the
\* placeholder as text when it has none.
C20_LabelsNeverStored ==
    /\ DOMAIN chat_messages = DOMAIN source_ids
    /\ \A c \in DOMAIN chat_messages :
          /\ Len(chat_messages[c]) = Len(source_ids[c])
          /\ \A i \in 1..Len(chat_messages[c]) :
                LET m == CHOOSE m \in Incoming : m.id = source_ids[c][i]
                    text == chat_messages[c][i][3]
                IN /\ text \notin PeriodLabels
                   /\ m.text = NoText => text = Placeholder
                   /\ m.text # NoText => text = m.text

\* a label that answered no prompt and a label that started a request have
\* arrived, and a message with text and one without are in the buffers
C20_Witness ==
    /\ label_dropped
    /\ requests[1].pc # "idle"
    /\ \E c \in DOMAIN chat_messages :
          \E i \in 1..Len(chat_messages[c]) : chat_messages[c][i][3] = Placeholder
    /\ \E c \in DOMAIN chat_messages :
          \E i \in 1..Len(chat_messages[c]) : chat_messages[c][i][3] = "hello"

\* C17: a request that has ended has ended in one of the outcomes
\* Delivered, NoData or Failed: no platform error on a reply or an edit
\* leaves it without outcome or leaves the handler as an exception.
C17_EndsInOneOutcome ==
    \A r \in Reqs :
       requests[r].pc = "done"
         => /\ requests[r].outcome \in {"Delivered", "NoData", "Failed"}
            /\ ~requests[r].escaped

\* C18: every step of a summary request, the window query, a reply, an
\* edit, a retry, leaves every conversation buffer as it is, and a window
\* query for a conversation without buffer returns the empty result and
\* creates no buffer.
C18_RequestLeavesBuffers ==
    [][requests' # requests
         => /\ chat_messages' = chat_messages
            /\ \A r \in Reqs :
                  (/\ requests[r].pc \in {"idle", "cooldown"}
                   /\ requests'[r].pc \notin {"idle", "cooldown"}
                   /\ requests'[r].chat \notin DOMAIN chat_messages)
                    => /\ requests'[r].messages = <<>>
                       /\ requests'[r].pc = "reply_nodata"
                       /\ requests'[r].chat \notin DOMAIN chat_messages']_vars

\* a request for a conversation without buffer has ended in NoData after a
\* delivery retry, the conversation still has no buffer and the other one
\* has kept its records
C18_Witness ==
    \E r \in Reqs :
       /\ requests[r].outcome = "NoData"
       /\ requests[r].retries > 0
       /\ requests[r].chat \notin DOMAIN chat_messages
       /\ \E c \in DOMAIN chat_messages : Len(chat_messages[c]) = 2

\* the steps request q takes by itself when deliveries succeed
ConcStep(q) ==
    \/ ReplyNoData(q, "ok")
    \/ ReplyProcessing(q, "ok")
    \/ EditSummary(q, "ok")

\* C16: while a request is in Generating the handlers still run: a message
\* can be stored in any conversation, another request can start in any
\* conversation and a request waiting for a reply or an edit can go on; the
\* transcript of the request in flight is the window over the buffer as it
\* was at Windowing, whatever was appended since.
C16_GeneratingDoesNotBlock ==
    \A r \in Reqs :
       requests[r].pc = "generating"
         => /\ StoredCount < MaxConcStored
                 => \A c \in Chats :
                       ENABLED HandleStore(MaxConcStored, c, 1, "alice", "hello")
            /\ \A q \in Reqs \ {r} :
                  /\ FreeRequest(q)
                       => \A c \in Chats : ENABLED HandleSummaryRequest(q, c, P24h)
                  /\ requests[q].pc \in {"reply_nodata", "reply_processing",
                                          "edit_summary"}
                       => ENABLED ConcStep(q)
            /\ requests[r].buf_len <= Len(BufferOf(requests[r].chat))
            /\ requests[r].messages =
                  FilterWindow(SubSeq(BufferOf(requests[r].chat), 1,
                                      requests[r].buf_len),
                               requests[r].cutoff)
            /\ requests[r].chat_history = FormatChatHistory(requests[r].messages)

\* request 1 is in Generating; since its window was taken a message was
\* appended to its conversation and request 2 started in the same
\* conversation, saw the longer window and was delivered
C16_Witness ==
    /\ requests[1].pc = "generating"
    /\ requests[2].outcome = "Delivered"
    /\ requests[2].chat = requests[1].chat
    /\ Len(BufferOf(requests[1].chat)) > requests[1].buf_len
    /\ Len(requests[2].messages) > Len(requests[1].messages)

====
